---------------------------- MODULE Spec2Model ----------------------------
(***************************************************************************)
(* zumservice-ha: the ZumService supervisor (process lifecycle, status     *)
(* polling with debounced down detection, the transaction scan loop) and   *)
(* its socket.io gateway (lib/websocket.js), as one state machine.         *)
(*                                                                         *)
(* An armed timer may fire at any later point.  The one delay a checked    *)
(* property depends on, the down debounce against the polling period, is   *)
(* kept as the number of polling ticks that fit into the debounce delay:   *)
(* both are computed from the delays in milliseconds the code passes to    *)
(* setTimeout and setInterval.                                             *)
(***************************************************************************)
EXTENDS Integers, Sequences, FiniteSets, Bags, TLC

(* ------------------------------ bounds -------------------------------- *)
MaxSpawns == 2
MaxInFlight == 1
MaxScanInFlight == 2
MaxOrphans == 1
MaxKillTimers == 2
MaxTx == 1
MaxSockets == 2
MaxHandlers == 2
MaxApiInFlight == 2
MaxBatchKnown == 1100

(* ------------------------ program constants --------------------------- *)
pollingInterval == 10
maxPollingFailures == 3
MsPerSecond == 1000

(* setInterval(..., this.pollingInterval * 1000) *)
PollPeriodMs == pollingInterval * MsPerSecond

(* setTimeout(..., this.pollingInterval * this.maxPollingFailures) *)
TriggerDelayMs == pollingInterval * maxPollingFailures

(* a window of TriggerDelayMs holds at least TicksAtLeast and at most
   TicksAtMost ticks of one interval of period PollPeriodMs *)
TicksAtLeast == TriggerDelayMs \div PollPeriodMs

TicksAtMost == (TriggerDelayMs + PollPeriodMs - 1) \div PollPeriodMs

VARIABLES
  child,              \* this.child: 0 = never spawned, n = the n-th spawned pty
  liveChildren,       \* spawned daemons still running
  closePending,       \* children whose 'close' waits in the 2 s setTimeout
  killTimers,         \* pending kill timeouts of stop()
  halted,             \* process.exit(1) was called
  rpcPassword,        \* this.rpcPassword: "changeme", or "false" when none is configured
  synced,             \* this.synced
  isRunning,          \* this.isRunning
  knownBlockCount,    \* this.knownBlockCount
  trigger,            \* this.trigger: "null", "armed" (pending) or "fired" (stale handle)
  ticksArmed,         \* ticks of the pointer's polling interval since the debounce was armed
  pollingIntervalPtr, \* TRUE when this.pollingIntervalPtr holds an interval
  orphanPolls,        \* polling intervals no pointer holds any more
  saveIntervalPtr,    \* TRUE when this.saveIntervalPtr holds an interval
  orphanSaves,        \* save intervals no pointer holds any more
  scanIntervalPtr,    \* TRUE when this.scanIntervalPtr holds an interval
  orphanScans,        \* scan intervals no pointer holds any more
  scanHeight,         \* db 'scanHeight'; 0 = absent
  statusInFlight,     \* getStatus calls not yet settled
  saveInFlight,       \* save calls not yet settled
  addressesInFlight,  \* getAddresses calls not yet settled
  scanInFlight,       \* getTransactions calls not yet settled: [height, cnt]
  failRun,            \* failed polls since the last successful one (saturates)
  downsInRun,         \* 'down' events of the debounce since the last successful poll
  replyKnown,         \* the knownBlockCount field of the last status reply
  downAtStop,         \* stop() was last called after a 'down' of the debounce, and no
                      \* poll has succeeded since that 'down'
  stopped,            \* stop() returned and _startChecks has not run since
  stopChild,          \* this.child when stop() was last called; 0 = never called
  found,              \* what the last step found set: "trigger" when _triggerUp cleared a
                      \* pending timeout, "scanIntervalPtr" when the 'synced' listener
                      \* returned at its guard
  conn,               \* per socket: "none" (not yet connected), "open" or "closed"
  permittedClients,   \* this.permittedClients: the authenticated set
  permittedOrder,     \* the keys of this.permittedClients in for-in order
  authTimer,          \* sockets whose 10 s connection timeout is pending
  handlers,           \* per socket: times _registerWebSocketClientEvents ran for it
  apiInFlight,        \* bag of the api calls of command listeners not yet settled:
                      \* [to, nonce, sent]
  fetchedTo,          \* every block from the initial cursor up to here, exclusive, was in a
                      \* resolved fetch whose transactions were all emitted
  putShort,           \* 'transaction' events the last resolved batch emitted after db.put
  wsEmitted,          \* the events the last step emitted on the WebSocket object, in order
  authSent,           \* the 'auth' replies of the last step: [to, pw, ok]
  received,           \* the command messages the last step received: [from, nonce]
  responded,          \* the command responses of the last step: [to, nonce, sent, error]
  sendFailed,         \* the sends of the last step that threw: [to, threw], threw telling
                      \* whether the exception left the broadcast call
  lastOp,             \* the operation of the last step
  emitted,            \* the events the last step emitted on the service, in order
  delivered           \* the messages the last step sent to sockets: [to, name, auth]

procVars == <<child, liveChildren, closePending, killTimers, halted>>
healthVars == <<synced, isRunning, knownBlockCount, trigger, ticksArmed>>
timerVars == <<pollingIntervalPtr, orphanPolls, saveIntervalPtr, orphanSaves, scanIntervalPtr,
               orphanScans>>
rpcVars == <<statusInFlight, saveInFlight, addressesInFlight, scanInFlight>>
runVars == <<failRun, downsInRun, replyKnown, downAtStop>>
wsVars == <<conn, permittedClients, authTimer, handlers, permittedOrder>>
cursorVars == <<scanHeight, fetchedTo, putShort>>
vars == <<procVars, healthVars, timerVars, rpcVars, runVars, cursorVars, stopped, stopChild, rpcPassword,
          found, wsVars, apiInFlight, lastOp, emitted, delivered, wsEmitted, authSent,
          received, responded, sendFailed>>

(* ------------------------------ helpers ------------------------------- *)
Sat(n, cap) == IF n < cap THEN n + 1 ELSE cap

FailCap == maxPollingFailures

RemoveAt(s, i) == SubSeq(s, 1, i - 1) \o SubSeq(s, i + 1, Len(s))

Sockets == 1..MaxSockets

(* the events _setupWebSocket relays, and the name each is broadcast under *)
Relayed == {"alive", "close", "data", "down", "error", "info", "save", "scan",
            "status", "synced", "transaction", "warning"}

RelayName(e) == IF e = "warning" THEN "info" ELSE e

(* broadcast over every connected socket *)
BroadcastTargets_All(permitted, open) == open

(* WebSocket.prototype.broadcast: the sockets it sends to *)
BroadcastTargets(permitted, open) == permitted

(* socket.emit(name) to socket s while the authenticated set is permitted *)
Msg(s, name, permitted) == [to |-> s, name |-> name, auth |-> s \in permitted]

(* the messages the relays send for the service events evs *)
Broadcast(evs, permitted, open) ==
  {Msg(s, RelayName(evs[i]), permitted) :
     s \in BroadcastTargets(permitted, open) \cap open,
     i \in {j \in 1..Len(evs) : evs[j] \in Relayed}}

OpenSockets(c) == {s \in Sockets : c[s] = "open"}

(* a handler outside the gateway emits evs, every send succeeding *)
Effects(op, evs) ==
  /\ lastOp' = op
  /\ emitted' = evs
  /\ delivered' = Broadcast(evs, permittedClients, OpenSockets(conn))
  /\ wsEmitted' = <<>>
  /\ authSent' = {}
  /\ received' = {}
  /\ responded' = {}
  /\ sendFailed' = {}
  /\ UNCHANGED <<wsVars, apiInFlight>>

(* the same for a handler that looks at neither this.trigger nor the scan pointer *)
Obs(op, evs) ==
  /\ Effects(op, evs)
  /\ found' = {}

Count(evs, name) == Cardinality({i \in 1..Len(evs) : evs[i] = name})

(* ------------------------- the constructor ---------------------------- *)

(* new ZumService({rpcPassword: rp}), "false" standing for no rpcPassword *)
Constructed(rp) ==
  /\ child = 0
  /\ liveChildren = {}
  /\ closePending = {}
  /\ killTimers = 0
  /\ halted = FALSE
  /\ rpcPassword = rp
  /\ synced = FALSE
  /\ isRunning = FALSE
  /\ knownBlockCount = 0
  /\ trigger = "null"
  /\ ticksArmed = 0
  /\ pollingIntervalPtr = FALSE
  /\ orphanPolls = 0
  /\ saveIntervalPtr = FALSE
  /\ orphanSaves = 0
  /\ scanIntervalPtr = FALSE
  /\ orphanScans = 0
  /\ scanHeight = 0
  /\ statusInFlight = 0
  /\ saveInFlight = 0
  /\ addressesInFlight = 0
  /\ scanInFlight = <<>>
  /\ failRun = 0
  /\ downsInRun = 0
  /\ downAtStop = FALSE
  /\ replyKnown = 0
  /\ stopped = FALSE
  /\ stopChild = 0
  /\ found = {}
  /\ conn = [s \in Sockets |-> "none"]
  /\ permittedClients = {}
  /\ permittedOrder = <<>>
  /\ authTimer = {}
  /\ handlers = [s \in Sockets |-> 0]
  /\ apiInFlight = EmptyBag
  /\ fetchedTo = 1
  /\ putShort = 0
  /\ lastOp = "new"
  /\ emitted = <<>>
  /\ delivered = {}
  /\ wsEmitted = <<>>
  /\ authSent = {}
  /\ received = {}
  /\ responded = {}
  /\ sendFailed = {}

(* the service of the sample caller: rpcPassword: 'changeme' *)
Init == Constructed("changeme")

(* --------------------- decisions taken by handlers -------------------- *)

(* _triggerDown without its if (!this.trigger) guard *)
TriggerDown_NoGuard(trig) == "armed"

(* _triggerDown: the state of this.trigger after the call *)
TriggerDown(trig) == IF trig = "null" THEN "armed" ELSE trig

(* the synced branch taken only when blockCount === knownBlockCount *)
SyncedAfter_EqualOnly(b, k, s) ==
  IF (k - b) > 1 THEN FALSE
  ELSE IF b = k THEN TRUE
  ELSE s

(* polling success branch: the value of this.synced after the reply (b, k) *)
SyncedAfter(b, k, s) ==
  IF (k - b) > 1 THEN FALSE
  ELSE IF (b + 1) = k \/ b = k THEN TRUE
  ELSE s

(* 'synced' emitted without the if (!this.synced) guard *)
EmitsSynced_Level(b, k, s) ==
  /\ ~((k - b) > 1)
  /\ ((b + 1) = k \/ b = k)

(* polling success branch: whether the reply (b, k) emits 'synced' *)
EmitsSynced(b, k, s) ==
  /\ ~((k - b) > 1)
  /\ ((b + 1) = k \/ b = k)
  /\ ~s

(* the on('synced') listener arming an interval whatever the pointer holds *)
ArmsScan_Always(ptr) == TRUE

(* on('synced'): if (this.scanIntervalPtr) return *)
ArmsScan(ptr) == ~ptr

(* _triggerUp leaving this.trigger as it is *)
TriggerUp_Keeps(trig) == trig

(* _triggerUp: if (this.trigger) { clearTimeout(this.trigger); this.trigger = null } *)
TriggerUp(trig) == IF trig # "null" THEN "null" ELSE trig

(* 'alive' emitted by every successful poll *)
EmitsAlive_Always(running) == TRUE

(* _triggerUp: if (!this.isRunning) { this.isRunning = true; this.emit('alive') } *)
EmitsAlive(running) == ~running

(* a scan tick requesting whatever the cursor and the known block count are *)
ScansAt_Always(height, known) == TRUE

(* scan callback: if (height >= this.knownBlockCount) return *)
ScansAt(height, known) == ~(height >= known)

(* the step function never requesting fewer than 10 blocks *)
BatchStep_TenAtLeast(backlog) == IF backlog > 100 THEN 1000 ELSE 10

(* the step function of the scan callback *)
BatchStep(backlog) ==
  IF backlog > 100 THEN 1000
  ELSE IF backlog > 100 THEN 100
  ELSE IF backlog > 10 THEN 10
  ELSE 1

(* the batch left unclamped *)
BatchSize_NoClamp(height, known) == BatchStep(known - height)

(* the blockCount a scan tick requests from cursor height *)
BatchSize(height, known) ==
  LET cnt == BatchStep(known - height)
  IN  IF (height + cnt) > known THEN known - height - 1 ELSE cnt

(* var height = this.db.get('scanHeight'); if (!height) height = 1 *)
ScanFrom(stored) == IF stored = 0 THEN 1 ELSE stored

(* the cursor written one block past the end of the fetched range *)
CursorAfter_SkipsOne(height, cnt) == height + cnt + 1

(* this.db.put('scanHeight', (height + cnt)) *)
CursorAfter(height, cnt) == height + cnt

(* the cursor written before the batch's transactions are emitted *)
EmittedBeforePut_None(n) == 0

(* getTransactions then: of the n transactions returned, the number whose
   'transaction' event the for loop has emitted when db.put runs *)
EmittedBeforePut(n) == n

(* the catch handler storing the end of the range that failed *)
CursorAfterFailure_Advances(stored, height, cnt) == height + cnt

(* getTransactions catch: the stored cursor after the failure of the request
   (height, cnt); the handler emits 'error' and writes nothing *)
CursorAfterFailure(stored, height, cnt) == stored

(* getTransactions({firstBlockIndex: height, blockCount: cnt}) resolved: the
   fetch covers the blocks height .. height + cnt - 1; to is the end of the
   fetched prefix *)
FetchedAfter(to, height, cnt) ==
  IF height <= to /\ (height + cnt) > to THEN height + cnt ELSE to

(* ------------------------- Process Supervisor ------------------------- *)
Configs == {"bad", "nopassword", "full"}

Lines == {"Loading container", "The password is wrong", "Container loaded",
          "Wallet loading is finished", "other"}

(* ZumService.prototype.start *)
Start(cfg) ==
  /\ ~halted
  /\ synced' = FALSE
  /\ IF cfg = "bad"
     THEN /\ Obs("start", <<"info", "error", "error">>)
          /\ UNCHANGED <<child, liveChildren>>
     ELSE /\ child < MaxSpawns
          /\ child' = child + 1
          /\ liveChildren' = liveChildren \cup {child + 1}
          /\ Obs("start", IF cfg = "nopassword"
                          THEN <<"info", "warning", "start">>
                          ELSE <<"info", "start">>)
  /\ UNCHANGED <<closePending, killTimers, halted, isRunning, knownBlockCount,
                 trigger, ticksArmed, timerVars, rpcVars, runVars, cursorVars, stopped, stopChild, rpcPassword>>

(* ZumService.prototype.stop *)
Stop ==
  /\ ~halted
  /\ killTimers < MaxKillTimers
  /\ saveIntervalPtr' = FALSE
  /\ pollingIntervalPtr' = FALSE
  /\ scanIntervalPtr' = FALSE
  /\ synced' = FALSE
  /\ killTimers' = killTimers + 1
  /\ stopped' = TRUE
  /\ stopChild' = child
  /\ downAtStop' = (downsInRun > 0)
  /\ Obs("stop", <<>>)
  /\ UNCHANGED <<child, liveChildren, closePending, halted, isRunning, knownBlockCount,
                 trigger, ticksArmed, orphanPolls, orphanSaves, orphanScans, rpcVars,
                 failRun, downsInRun, replyKnown, cursorVars, rpcPassword>>

(* the setTimeout callback of stop(): if (this.child) this.child.kill() *)
KillTimerFire ==
  /\ ~halted
  /\ killTimers > 0
  /\ killTimers' = killTimers - 1
  /\ IF child # 0 /\ child \in liveChildren
     THEN /\ liveChildren' = liveChildren \ {child}
          /\ closePending' = closePending \cup {child}
     ELSE UNCHANGED <<liveChildren, closePending>>
  /\ Obs("kill", <<>>)
  /\ UNCHANGED <<child, halted, healthVars, timerVars, rpcVars, runVars,
                 cursorVars, stopped, stopChild, rpcPassword>>

(* the daemon process ends; child.on('close') arms the 2000 ms timeout *)
ChildExit(c) ==
  /\ ~halted
  /\ c \in liveChildren
  /\ liveChildren' = liveChildren \ {c}
  /\ closePending' = closePending \cup {c}
  /\ Obs("exit", <<>>)
  /\ UNCHANGED <<child, killTimers, halted, healthVars, timerVars, rpcVars,
                 runVars, cursorVars, stopped, stopChild, rpcPassword>>

(* the timeout of child.on('close'): this.emit('close', exitcode) *)
CloseTimerFire(c) ==
  /\ ~halted
  /\ c \in closePending
  /\ closePending' = closePending \ {c}
  /\ Obs("close", <<"close">>)
  /\ UNCHANGED <<child, liveChildren, killTimers, halted, healthVars, timerVars,
                 rpcVars, runVars, cursorVars, stopped, stopChild, rpcPassword>>

(* child.on('error'): emits 'error' and 'down'; on('down') clears isRunning *)
ChildError(c) ==
  /\ ~halted
  /\ c \in liveChildren
  /\ isRunning' = FALSE
  /\ Obs("childError", <<"error", "down">>)
  /\ UNCHANGED <<procVars, synced, knownBlockCount, trigger, ticksArmed, timerVars,
                 rpcVars, runVars, cursorVars, stopped, stopChild, rpcPassword>>

(* ZumService.prototype._startChecks: both pointers are overwritten *)
StartChecks ==
  /\ ~pollingIntervalPtr \/ orphanPolls < MaxOrphans
  /\ pollingIntervalPtr' = TRUE
  /\ orphanPolls' = IF pollingIntervalPtr THEN orphanPolls + 1 ELSE orphanPolls
  /\ saveIntervalPtr' = TRUE
  /\ orphanSaves' = IF saveIntervalPtr THEN orphanSaves + 1 ELSE orphanSaves
  /\ stopped' = FALSE

(* child.on('data') for one line: _stdio(line), then emit('data', line) *)
ChildData(c, line) ==
  /\ ~halted
  /\ c \in liveChildren
  /\ CASE line = "The password is wrong" ->
            /\ halted' = TRUE
            /\ Obs("data", <<"error", "error", "error", "error">>)
            /\ UNCHANGED <<child, liveChildren, closePending, killTimers,
                           timerVars, rpcVars, stopped, stopChild, rpcPassword>>
       [] line = "Wallet loading is finished" ->
            /\ addressesInFlight < MaxInFlight
            /\ addressesInFlight' = addressesInFlight + 1
            /\ StartChecks
            /\ Obs("data", <<"info", "data">>)
            /\ UNCHANGED <<procVars, scanIntervalPtr, orphanScans, statusInFlight,
                           saveInFlight, scanInFlight, stopChild, rpcPassword>>
       [] line \in {"Loading container", "Container loaded"} ->
            /\ Obs("data", <<"info", "data">>)
            /\ UNCHANGED <<procVars, timerVars, rpcVars, stopped, stopChild, rpcPassword>>
       [] OTHER ->
            /\ Obs("data", <<"data">>)
            /\ UNCHANGED <<procVars, timerVars, rpcVars, stopped, stopChild, rpcPassword>>
  /\ UNCHANGED <<healthVars, runVars, cursorVars>>

(* getAddresses() of the startup banner settles *)
AddressesSettle(ok) ==
  /\ ~halted
  /\ addressesInFlight > 0
  /\ addressesInFlight' = addressesInFlight - 1
  /\ Obs("addresses", IF ok THEN <<"info">> ELSE <<"warning">>)
  /\ UNCHANGED <<procVars, healthVars, timerVars, statusInFlight, saveInFlight,
                 scanInFlight, runVars, cursorVars, stopped, stopChild, rpcPassword>>


(* ----------------------- Health & Sync Monitor ------------------------ *)

(* the polling setInterval callback of the interval the pointer holds *)
PollTick ==
  /\ ~halted
  /\ pollingIntervalPtr
  /\ trigger = "armed" => ticksArmed < TicksAtMost
  /\ statusInFlight < MaxInFlight
  /\ statusInFlight' = statusInFlight + 1
  /\ ticksArmed' = IF trigger = "armed" THEN ticksArmed + 1 ELSE ticksArmed
  /\ Obs("pollTick", <<>>)
  /\ UNCHANGED <<procVars, synced, isRunning, knownBlockCount, trigger, timerVars,
                 saveInFlight, addressesInFlight, scanInFlight, runVars, cursorVars,
                 stopped, stopChild, rpcPassword>>

(* the same callback of an interval that _startChecks overwrote *)
OrphanPollTick ==
  /\ ~halted
  /\ orphanPolls > 0
  /\ statusInFlight < MaxInFlight
  /\ statusInFlight' = statusInFlight + 1
  /\ Obs("pollTick", <<>>)
  /\ UNCHANGED <<procVars, healthVars, timerVars, saveInFlight, addressesInFlight,
                 scanInFlight, runVars, cursorVars, stopped, stopChild, rpcPassword>>

(* getStatus() resolves with {blockCount: b, knownBlockCount: k}: the success
   branch with the on('synced') listener, then _triggerUp *)
PollResolve(b, k) ==
  /\ ~halted
  /\ statusInFlight > 0
  /\ statusInFlight' = statusInFlight - 1
  /\ knownBlockCount' = b
  /\ synced' = SyncedAfter(b, k, synced)
  /\ LET arms == EmitsSynced(b, k, synced) /\ ArmsScan(scanIntervalPtr)
     IN  /\ scanIntervalPtr' = (scanIntervalPtr \/ arms)
         /\ orphanScans' = IF arms /\ scanIntervalPtr THEN orphanScans + 1 ELSE orphanScans
  /\ isRunning' = TRUE
  /\ trigger' = TriggerUp(trigger)
  /\ found' = (IF trigger = "armed" THEN {"trigger"} ELSE {})
               \cup (IF EmitsSynced(b, k, synced) /\ scanIntervalPtr
                     THEN {"scanIntervalPtr"} ELSE {})
  /\ ticksArmed' = 0
  /\ failRun' = 0
  /\ downsInRun' = 0
  /\ replyKnown' = k
  /\ downAtStop' = FALSE
  /\ Effects("pollResolve",
         <<"status">>
         \o (IF EmitsSynced(b, k, synced) THEN <<"synced">> ELSE <<>>)
         \o (IF EmitsAlive(isRunning) THEN <<"alive">> ELSE <<>>))
  /\ UNCHANGED <<procVars, pollingIntervalPtr, orphanPolls, saveIntervalPtr, orphanSaves,
                 saveInFlight, addressesInFlight, scanInFlight, cursorVars, stopped, stopChild, rpcPassword>>

(* getStatus() rejects: emit 'error', _triggerDown *)
PollReject ==
  /\ ~halted
  /\ statusInFlight > 0
  /\ statusInFlight' = statusInFlight - 1
  /\ trigger' = TriggerDown(trigger)
  /\ ticksArmed' = IF trigger' = "armed" /\ trigger # "armed" THEN 0 ELSE ticksArmed
  /\ failRun' = Sat(failRun, FailCap)
  /\ Obs("pollReject", <<"error">>)
  /\ UNCHANGED <<procVars, synced, isRunning, knownBlockCount, timerVars, saveInFlight,
                 addressesInFlight, scanInFlight, downsInRun, replyKnown, downAtStop, cursorVars,
                 stopped, stopChild, rpcPassword>>

(* the setTimeout callback of _triggerDown: emit 'down'; on('down') *)
TriggerFire ==
  /\ ~halted
  /\ trigger = "armed"
  /\ pollingIntervalPtr => ticksArmed >= TicksAtLeast
  /\ trigger' = "fired"
  /\ isRunning' = FALSE
  /\ downsInRun' = Sat(downsInRun, 2)
  /\ Obs("triggerFire", <<"down">>)
  /\ UNCHANGED <<procVars, synced, knownBlockCount, ticksArmed, timerVars, rpcVars,
                 failRun, replyKnown, downAtStop, cursorVars, stopped, stopChild,
                 rpcPassword>>

(* the save setInterval callback, of the pointer's interval or of an orphan *)
SaveTick ==
  /\ ~halted
  /\ saveIntervalPtr \/ orphanSaves > 0
  /\ saveInFlight < MaxInFlight
  /\ saveInFlight' = saveInFlight + 1
  /\ Obs("saveTick", <<>>)
  /\ UNCHANGED <<procVars, healthVars, timerVars, statusInFlight, addressesInFlight,
                 scanInFlight, runVars, cursorVars, stopped, stopChild, rpcPassword>>

(* save() settles *)
SaveSettle(ok) ==
  /\ ~halted
  /\ saveInFlight > 0
  /\ saveInFlight' = saveInFlight - 1
  /\ Obs("saveSettle", IF ok THEN <<"save">> ELSE <<"error">>)
  /\ UNCHANGED <<procVars, healthVars, timerVars, statusInFlight, addressesInFlight,
                 scanInFlight, runVars, cursorVars, stopped, stopChild, rpcPassword>>

(* ----------------------------- Scan Loop ------------------------------ *)

(* the scan setInterval callback, of the pointer's interval or of an orphan *)
ScanTick ==
  /\ ~halted
  /\ scanIntervalPtr \/ orphanScans > 0
  /\ LET height == ScanFrom(scanHeight)
     IN  IF synced /\ ScansAt(height, knownBlockCount)
         THEN /\ Len(scanInFlight) < MaxScanInFlight
              /\ scanInFlight' = Append(scanInFlight,
                     [height |-> height, cnt |-> BatchSize(height, knownBlockCount)])
              /\ Obs("scanTick", <<"scan">>)
         ELSE /\ UNCHANGED scanInFlight
              /\ Obs("scanTick", <<>>)
  /\ UNCHANGED <<procVars, healthVars, timerVars, statusInFlight, saveInFlight,
                 addressesInFlight, runVars, cursorVars, stopped, stopChild, rpcPassword>>

(* getTransactions() of request i resolves with n transactions *)
ScanResolve(i, n) ==
  /\ ~halted
  /\ i \in 1..Len(scanInFlight)
  /\ scanHeight' = CursorAfter(scanInFlight[i].height, scanInFlight[i].cnt)
  /\ fetchedTo' = FetchedAfter(fetchedTo, scanInFlight[i].height, scanInFlight[i].cnt)
  /\ putShort' = n - EmittedBeforePut(n)
  /\ scanInFlight' = RemoveAt(scanInFlight, i)
  /\ Obs("scanResolve", [j \in 1..n |-> "transaction"])
  /\ UNCHANGED <<procVars, healthVars, timerVars, statusInFlight, saveInFlight,
                 addressesInFlight, runVars, stopped, stopChild, rpcPassword>>

(* getTransactions() of request i rejects *)
ScanReject(i) ==
  /\ ~halted
  /\ i \in 1..Len(scanInFlight)
  /\ scanInFlight' = RemoveAt(scanInFlight, i)
  /\ scanHeight' = CursorAfterFailure(scanHeight, scanInFlight[i].height, scanInFlight[i].cnt)
  /\ Obs("scanReject", <<"error">>)
  /\ UNCHANGED <<procVars, healthVars, timerVars, statusInFlight, saveInFlight,
                 addressesInFlight, runVars, fetchedTo, putShort, stopped, stopChild, rpcPassword>>

(* ------------------------------ Gateway ------------------------------- *)

(* sha256 over the secrets of the model *)
Sha256 == [p \in {"changeme"} |-> "hash"]

(* this.password of the WebSocket: opts.password || false, hashed when set *)
password == IF rpcPassword = "false" THEN "false" ELSE Sha256[rpcPassword]

Secrets == {"hash", "wrong"}

(* every challenge accepted *)
Authenticates_Any(pw) == TRUE

(* socket.on('challenge'): if (password === this.password) *)
Authenticates(pw) == pw = password

(* the timeout disconnecting without looking at the authenticated set *)
TimeoutDisconnects_Always(s) == TRUE

(* the connection timeout: if (!this.permittedClients[socket.id]) *)
TimeoutDisconnects(s) == s \notin permittedClients

(* the disconnect handler leaving the authenticated set as it is *)
PermittedAfterDisconnect_Kept(permitted, s) == permitted

(* socket.on('disconnect'): delete that.permittedClients[socket.id] *)
PermittedAfterDisconnect(permitted, s) == permitted \ {s}

(* Object key order of this.permittedClients: a deleted key leaves, a new key
   goes last, an assignment to an existing key keeps its place *)
OrderAfter(order, permitted) ==
  LET kept == SelectSeq(order, LAMBDA t : t \in permitted)
      new == permitted \ {kept[i] : i \in DOMAIN kept}
  IN  IF new = {} THEN kept ELSE Append(kept, CHOOSE t \in new : TRUE)

(* a gateway step that receives no command and answers none, every send
   succeeding *)
NoCommand ==
  /\ received' = {}
  /\ responded' = {}
  /\ sendFailed' = {}
  /\ found' = {}
  /\ UNCHANGED apiInFlight

(* io.on('connection'): socket.emit('challenge'), emit('connection'), arm the timeout *)
Connect(s) ==
  /\ ~halted
  /\ conn[s] = "none"
  /\ s = Cardinality({t \in Sockets : conn[t] # "none"}) + 1
  /\ conn' = [conn EXCEPT ![s] = "open"]
  /\ authTimer' = authTimer \cup {s}
  /\ lastOp' = "connect"
  /\ emitted' = <<"info">>
  /\ delivered' = {Msg(s, "challenge", permittedClients)}
                  \cup Broadcast(<<"info">>, permittedClients, OpenSockets(conn'))
  /\ wsEmitted' = <<"connection">>
  /\ authSent' = {}
  /\ NoCommand
  /\ UNCHANGED <<procVars, healthVars, timerVars, rpcVars, runVars, cursorVars, stopped,
                 stopChild, rpcPassword, permittedClients, permittedOrder, handlers>>

(* socket.on('disconnect'), the client having closed the connection *)
ClientDisconnect(s) ==
  /\ ~halted
  /\ conn[s] = "open"
  /\ conn' = [conn EXCEPT ![s] = "closed"]
  /\ permittedClients' = PermittedAfterDisconnect(permittedClients, s)
  /\ permittedOrder' = OrderAfter(permittedOrder, permittedClients')
  /\ lastOp' = "disconnect"
  /\ emitted' = <<"info">>
  /\ delivered' = Broadcast(<<"info">>, permittedClients', OpenSockets(conn'))
  /\ wsEmitted' = <<"disconnect">>
  /\ authSent' = {}
  /\ NoCommand
  /\ UNCHANGED <<procVars, healthVars, timerVars, rpcVars, runVars, cursorVars, stopped, stopChild, rpcPassword,
                 authTimer, handlers>>

(* socket.on('challenge') with the auth.success / auth.failure listeners *)
Challenge(s, pw) ==
  /\ ~halted
  /\ conn[s] = "open"
  /\ lastOp' = "challenge"
  /\ IF Authenticates(pw)
     THEN /\ handlers[s] < MaxHandlers
          /\ permittedClients' = permittedClients \cup {s}
          /\ handlers' = [handlers EXCEPT ![s] = @ + 1]
          /\ emitted' = <<"info">>
          /\ delivered' =
               (IF isRunning THEN {Msg(s, "alive", permittedClients')} ELSE {})
               \cup Broadcast(<<"info">>, permittedClients', OpenSockets(conn))
               \cup {Msg(s, "auth", permittedClients')}
          /\ wsEmitted' = <<"auth.success">>
          /\ authSent' = {[to |-> s, pw |-> pw, ok |-> TRUE]}
          /\ UNCHANGED conn
     ELSE /\ conn' = [conn EXCEPT ![s] = "closed"]
          /\ permittedClients' = PermittedAfterDisconnect(permittedClients, s)
          /\ emitted' = <<"warning", "info">>
          /\ delivered' =
               Broadcast(<<"warning">>, permittedClients, OpenSockets(conn))
               \cup {Msg(s, "auth", permittedClients)}
               \cup Broadcast(<<"info">>, permittedClients', OpenSockets(conn'))
          /\ wsEmitted' = <<"auth.failure", "disconnect">>
          /\ authSent' = {[to |-> s, pw |-> pw, ok |-> FALSE]}
          /\ UNCHANGED handlers
  /\ permittedOrder' = OrderAfter(permittedOrder, permittedClients')
  /\ NoCommand
  /\ UNCHANGED <<procVars, healthVars, timerVars, rpcVars, runVars, cursorVars, stopped, stopChild, rpcPassword,
                 authTimer>>

(* the 10000 ms setTimeout callback of the connection handler *)
AuthTimeout(s) ==
  /\ ~halted
  /\ s \in authTimer
  /\ authTimer' = authTimer \ {s}
  /\ lastOp' = "authTimeout"
  /\ IF TimeoutDisconnects(s) /\ conn[s] = "open"
     THEN /\ conn' = [conn EXCEPT ![s] = "closed"]
          /\ permittedClients' = PermittedAfterDisconnect(permittedClients, s)
          /\ emitted' = <<"info">>
          /\ delivered' = Broadcast(<<"info">>, permittedClients', OpenSockets(conn'))
          /\ wsEmitted' = <<"disconnect">>
     ELSE /\ emitted' = <<>>
          /\ delivered' = {}
          /\ wsEmitted' = <<>>
          /\ UNCHANGED <<conn, permittedClients>>
  /\ permittedOrder' = OrderAfter(permittedOrder, permittedClients')
  /\ authSent' = {}
  /\ NoCommand
  /\ UNCHANGED <<procVars, healthVars, timerVars, rpcVars, runVars, cursorVars, stopped, stopChild, rpcPassword,
                 handlers>>

(* for (var key in this.permittedClients): the sockets visited before f *)
VisitedBefore(order, f) ==
  {order[j] : j \in {i \in DOMAIN order : \E m \in DOMAIN order : order[m] = f /\ i < m}}

(* the second webSocket.on('error') listener calls this.error(...), a method
   ZumService does not have: the call throws a TypeError *)
ErrorListenerThrows == TRUE

(* child.on('data') for a line _stdio ignores, socket.emit throwing for socket
   f in the broadcast of 'data'.  The catch of broadcast emits 'error' on the
   WebSocket.  Its first listener emits 'error' on the service, and the relay
   of 'error' broadcasts it: to every authenticated socket when the send to f
   works again, and when it keeps failing to the sockets before f, the catch
   re-entering itself until the stack is exhausted.  Its second listener
   throws.  The exception leaves broadcast, the relay and the handler; the
   process ends unless the host installed an uncaughtException handler. *)
ChildDataSendFails(c, f, again, caught) ==
  /\ ~halted
  /\ c \in liveChildren
  /\ f \in permittedClients
  /\ LET before == VisitedBefore(permittedOrder, f)
         threw == ErrorListenerThrows \/ again
         dataTo == IF threw THEN before ELSE permittedClients \ {f}
         errorTo == IF again THEN before ELSE permittedClients
     IN  /\ delivered' = {Msg(s, "data", permittedClients) : s \in dataTo}
                         \cup {Msg(s, "error", permittedClients) : s \in errorTo}
         /\ sendFailed' = {[to |-> f, threw |-> threw]}
         /\ halted' = (threw /\ ~caught)
  /\ lastOp' = "data"
  /\ emitted' = IF again THEN <<"data", "error", "error">> ELSE <<"data", "error">>
  /\ wsEmitted' = IF again THEN <<"error", "error">> ELSE <<"error">>
  /\ authSent' = {}
  /\ received' = {}
  /\ responded' = {}
  /\ found' = {}
  /\ UNCHANGED <<child, liveChildren, closePending, killTimers, healthVars, timerVars,
                 rpcVars, runVars, cursorVars, stopped, stopChild, rpcPassword, wsVars, apiInFlight>>

(* the nonce member of a command's payload; 0 also stands for a payload
   without one, both being falsy *)
Nonces == {0, 111, 222}

(* the values nonce() returns *)
Generated == {900}

(* data.nonce = data.nonce || nonce() *)
EffectiveNonce(nc, g) == IF nc = 0 THEN g ELSE nc

(* the command listeners registered when the socket connects *)
Listeners_OnConnect(s) == 1..(IF handlers[s] = 0 THEN 1 ELSE handlers[s])

(* the socket.on(evt) listeners of socket s: one per run of
   _registerWebSocketClientEvents for it *)
Listeners(s) == 1..handlers[s]

(* the api calls the listeners of socket s make for a command with nonce nc,
   g[j] being the value nonce() would return to listener j *)
Calls(s, nc, g) ==
  [j \in Listeners(s) |-> [to |-> s, nonce |-> EffectiveNonce(nc, g[j]), sent |-> nc]]

SeqToBag(seq) ==
  [r \in {seq[j] : j \in DOMAIN seq} |-> Cardinality({j \in DOMAIN seq : seq[j] = r})]

(* socket s sends a command with nonce nc: every listener of the command
   parses the payload and calls that.api[evt](data) *)
Request(s, nc) ==
  /\ ~halted
  /\ conn[s] = "open"
  /\ BagCardinality(apiInFlight) + handlers[s] <= MaxApiInFlight
  /\ \E g \in [Listeners(s) -> Generated] :
       apiInFlight' = apiInFlight (+) SeqToBag(Calls(s, nc, g))
  /\ received' = {[from |-> s, nonce |-> nc]}
  /\ responded' = {}
  /\ lastOp' = "request"
  /\ emitted' = <<>>
  /\ delivered' = {}
  /\ wsEmitted' = <<>>
  /\ authSent' = {}
  /\ sendFailed' = {}
  /\ found' = {}
  /\ UNCHANGED <<procVars, healthVars, timerVars, rpcVars, runVars, cursorVars, stopped,
                 stopChild, rpcPassword, wsVars>>

(* an api call of a command listener settles: socket.emit(evt, {nonce, data})
   or socket.emit(evt, {nonce, error}); a closed socket drops the packet *)
ApiSettle(call, ok) ==
  /\ ~halted
  /\ BagIn(call, apiInFlight)
  /\ apiInFlight' = apiInFlight (-) SetToBag({call})
  /\ IF conn[call.to] = "open"
     THEN /\ responded' = {[to |-> call.to, nonce |-> call.nonce,
                            sent |-> call.sent, error |-> ~ok]}
          /\ delivered' = {Msg(call.to, "getStatus", permittedClients)}
     ELSE /\ responded' = {}
          /\ delivered' = {}
  /\ received' = {}
  /\ lastOp' = "apiSettle"
  /\ emitted' = <<>>
  /\ wsEmitted' = <<>>
  /\ authSent' = {}
  /\ sendFailed' = {}
  /\ found' = {}
  /\ UNCHANGED <<procVars, healthVars, timerVars, rpcVars, runVars, cursorVars, stopped,
                 stopChild, rpcPassword, wsVars>>

(* --------------------------- specifications -------------------------- *)

(* the blockCount and knownBlockCount values a status reply may carry:
   knownBlockCount - blockCount ranges over -1, 0, 1 and 2 *)
ReplyBlocks == {2}

ReplyKnowns == {1, 2, 3, 4}

(* block counts that reach the branches of the batch step function *)
ScanCounts == {1, 12, 150}

(* knownBlockCount - blockCount of the replies that drive the scan loop *)
ScanLags == {0, 2}

(* the whole program: every handler may run *)
Next ==
  \/ \E cfg \in Configs : Start(cfg)
  \/ Stop
  \/ KillTimerFire
  \/ \E c \in liveChildren : ChildExit(c)
  \/ \E c \in closePending : CloseTimerFire(c)
  \/ \E c \in liveChildren : ChildError(c)
  \/ \E c \in liveChildren, line \in Lines : ChildData(c, line)
  \/ \E ok \in BOOLEAN : AddressesSettle(ok)
  \/ PollTick
  \/ OrphanPollTick
  \/ \E b \in ReplyBlocks, k \in ReplyKnowns : PollResolve(b, k)
  \/ PollReject
  \/ TriggerFire
  \/ SaveTick
  \/ \E ok \in BOOLEAN : SaveSettle(ok)
  \/ ScanTick
  \/ \E i \in 1..Len(scanInFlight), n \in 0..MaxTx : ScanResolve(i, n)
  \/ \E i \in 1..Len(scanInFlight) : ScanReject(i)
  \/ \E s \in Sockets : Connect(s)
  \/ \E s \in Sockets : ClientDisconnect(s)
  \/ \E s \in Sockets, pw \in Secrets : Challenge(s, pw)
  \/ \E s \in Sockets : AuthTimeout(s)
  \/ \E c \in liveChildren, f \in Sockets, again \in BOOLEAN, caught \in BOOLEAN :
       ChildDataSendFails(c, f, again, caught)
  \/ \E s \in Sockets, nc \in Nonces : Request(s, nc)
  \/ \E call \in BagToSet(apiInFlight), ok \in BOOLEAN : ApiSettle(call, ok)

Spec == Init /\ [][Next]_vars

(* Process Supervisor: the handlers of start(), stop() and the child *)
NextSupervisor ==
  \/ \E cfg \in Configs : Start(cfg)
  \/ Stop
  \/ KillTimerFire
  \/ \E c \in liveChildren : ChildExit(c)
  \/ \E c \in closePending : CloseTimerFire(c)
  \/ \E c \in liveChildren : ChildError(c)
  \/ \E c \in liveChildren, line \in Lines : ChildData(c, line)
  \/ \E ok \in BOOLEAN : AddressesSettle(ok)

SpecSupervisor == Init /\ [][NextSupervisor]_vars

(* Health & Sync Monitor: start(), stop(), the daemon's lines and the polls *)
NextHealth ==
  \/ \E cfg \in Configs : Start(cfg)
  \/ Stop
  \/ \E c \in liveChildren : ChildError(c)
  \/ \E c \in liveChildren, line \in Lines : ChildData(c, line)
  \/ \E ok \in BOOLEAN : AddressesSettle(ok)
  \/ PollTick
  \/ OrphanPollTick
  \/ \E b \in ReplyBlocks, k \in ReplyKnowns : PollResolve(b, k)
  \/ PollReject
  \/ TriggerFire

SpecHealth == Init /\ [][NextHealth]_vars

(* Scan Loop: the polls that drive it and the scan steps *)
NextScan ==
  \/ \E cfg \in Configs : Start(cfg)
  \/ \E c \in liveChildren, line \in Lines : ChildData(c, line)
  \/ PollTick
  \/ \E b \in ScanCounts, lag \in ScanLags : PollResolve(b, b + lag)
  \/ ScanTick
  \/ \E i \in 1..Len(scanInFlight), n \in 0..MaxTx : ScanResolve(i, n)
  \/ \E i \in 1..Len(scanInFlight) : ScanReject(i)

SpecScan == Init /\ [][NextScan]_vars

(* the batch computation alone: a synced, polled service with any known
   block count up to MaxBatchKnown and a persisted cursor *)
BatchCursors == {0, 600}

InitBatch ==
  /\ child = 1
  /\ liveChildren = {1}
  /\ closePending = {}
  /\ killTimers = 0
  /\ halted = FALSE
  /\ rpcPassword = "changeme"
  /\ synced = TRUE
  /\ isRunning = TRUE
  /\ knownBlockCount \in 1..MaxBatchKnown
  /\ trigger = "null"
  /\ ticksArmed = 0
  /\ pollingIntervalPtr = TRUE
  /\ orphanPolls = 0
  /\ saveIntervalPtr = TRUE
  /\ orphanSaves = 0
  /\ scanIntervalPtr = TRUE
  /\ orphanScans = 0
  /\ scanHeight \in BatchCursors
  /\ statusInFlight = 0
  /\ saveInFlight = 0
  /\ addressesInFlight = 1
  /\ scanInFlight = <<>>
  /\ failRun = 0
  /\ downsInRun = 0
  /\ downAtStop = FALSE
  /\ replyKnown = knownBlockCount
  /\ stopped = FALSE
  /\ stopChild = 0
  /\ found = {}
  /\ conn = [s \in Sockets |-> "none"]
  /\ permittedClients = {}
  /\ permittedOrder = <<>>
  /\ authTimer = {}
  /\ handlers = [s \in Sockets |-> 0]
  /\ apiInFlight = EmptyBag
  /\ fetchedTo = ScanFrom(scanHeight)
  /\ putShort = 0
  /\ lastOp = "pollResolve"
  /\ emitted = <<"status", "synced", "alive">>
  /\ delivered = {}
  /\ wsEmitted = <<>>
  /\ authSent = {}
  /\ received = {}
  /\ responded = {}
  /\ sendFailed = {}

NextBatch ==
  \/ ScanTick
  \/ \E i \in 1..Len(scanInFlight) : ScanReject(i)

SpecBatch == InitBatch /\ [][NextBatch]_vars

(* Gateway: the connections, and the supervisor handlers whose events it relays *)
NextGateway ==
  \/ \E s \in Sockets : Connect(s)
  \/ \E s \in Sockets : ClientDisconnect(s)
  \/ \E s \in Sockets, pw \in Secrets : Challenge(s, pw)
  \/ \E s \in Sockets : AuthTimeout(s)
  \/ \E cfg \in Configs : Start(cfg)
  \/ \E c \in liveChildren, line \in Lines : ChildData(c, line)
  \/ \E c \in liveChildren : ChildError(c)

SpecGateway == Init /\ [][NextGateway]_vars

(* Gateway commands: the connections and the commands they send *)
NextCommands ==
  \/ \E s \in Sockets : Connect(s)
  \/ \E s \in Sockets : ClientDisconnect(s)
  \/ \E s \in Sockets, pw \in Secrets : Challenge(s, pw)
  \/ \E s \in Sockets, nc \in Nonces : Request(s, nc)
  \/ \E call \in BagToSet(apiInFlight), ok \in BOOLEAN : ApiSettle(call, ok)

SpecCommands == Init /\ [][NextCommands]_vars

(* the save timer: start(), stop(), the daemon's lines, the polls and the saves *)
NextSave ==
  \/ \E cfg \in Configs : Start(cfg)
  \/ Stop
  \/ \E c \in liveChildren, line \in Lines : ChildData(c, line)
  \/ PollTick
  \/ \E b \in ReplyBlocks, k \in ReplyKnowns : PollResolve(b, k)
  \/ SaveTick
  \/ \E ok \in BOOLEAN : SaveSettle(ok)

SpecSave == Init /\ [][NextSave]_vars

(* a block count whose backlog takes a batch of 10 and batches of 1 *)
LifeCounts == {12}

(* the scan loop over the life of the service: the scan steps with stop(),
   the failing polls and the child's errors *)
NextScanLife ==
  \/ \E cfg \in Configs : Start(cfg)
  \/ Stop
  \/ \E c \in liveChildren, line \in Lines : ChildData(c, line)
  \/ \E c \in liveChildren : ChildError(c)
  \/ PollTick
  \/ \E b \in LifeCounts, lag \in ScanLags : PollResolve(b, b + lag)
  \/ PollReject
  \/ TriggerFire
  \/ ScanTick
  \/ \E i \in 1..Len(scanInFlight), n \in 0..MaxTx : ScanResolve(i, n)

SpecScanLife == Init /\ [][NextScanLife]_vars

(* broadcasts with a failing send: the connections, the daemon's lines and the
   'data' broadcast in which one send throws *)
NextBroadcast ==
  \/ \E s \in Sockets : Connect(s)
  \/ \E s \in Sockets : ClientDisconnect(s)
  \/ \E s \in Sockets, pw \in Secrets : Challenge(s, pw)
  \/ \E cfg \in Configs : Start(cfg)
  \/ \E c \in liveChildren, line \in Lines : ChildData(c, line)
  \/ \E c \in liveChildren, f \in Sockets, again \in BOOLEAN, caught \in BOOLEAN :
       ChildDataSendFails(c, f, again, caught)

SpecBroadcast == Init /\ [][NextBroadcast]_vars

(* down detection over restarts: start(), stop(), the daemon's lines and the
   polls of the pointer's interval *)
DownReplies == {2}

NextDown ==
  \/ \E cfg \in Configs : Start(cfg)
  \/ Stop
  \/ \E c \in liveChildren, line \in Lines : ChildData(c, line)
  \/ \E ok \in BOOLEAN : AddressesSettle(ok)
  \/ PollTick
  \/ \E b \in DownReplies : PollResolve(b, b)
  \/ PollReject
  \/ TriggerFire

(* the polling interval keeps firing, a pending timeout fires, and every
   getStatus() settles; the weak fairness of PollReject is the daemon that
   keeps failing its polls *)
SpecDown ==
  /\ Init
  /\ [][NextDown]_vars
  /\ WF_vars(PollTick)
  /\ WF_vars(PollReject)
  /\ WF_vars(TriggerFire)

(* the scan loop of a synced service whose known block count stays fixed and
   whose fetches all succeed *)
LiveKnowns == {12, 35, 150}

InitScanLive ==
  /\ InitBatch
  /\ knownBlockCount \in LiveKnowns
  /\ scanHeight = 0

NextScanLive ==
  \/ ScanTick
  \/ \E i \in 1..Len(scanInFlight), n \in 0..MaxTx : ScanResolve(i, n)

(* the scan interval keeps firing and every getTransactions() resolves *)
SpecScanLive ==
  /\ InitScanLive
  /\ [][NextScanLive]_vars
  /\ WF_vars(ScanTick)
  /\ WF_vars(\E i \in 1..Len(scanInFlight), n \in 0..MaxTx : ScanResolve(i, n))

(* the gateway of a service constructed without rpcPassword *)
InitLegacy == Constructed("false")

(* the challenge payloads a client may send: a hash, or the boolean false *)
Payloads == Secrets \cup {"false"}

NextLegacy ==
  \/ \E s \in Sockets : Connect(s)
  \/ \E s \in Sockets : ClientDisconnect(s)
  \/ \E s \in Sockets, pw \in Payloads : Challenge(s, pw)
  \/ \E s \in Sockets : AuthTimeout(s)

SpecLegacy == InitLegacy /\ [][NextLegacy]_vars


(* ------------------------------ claims -------------------------------- *)

(* C1: in a run of N consecutive failed status polls, N < maxPollingFailures,
   no 'down' event has been emitted by the debounce. *)
C1_NoDownBeforeMaxFailures ==
  failRun < maxPollingFailures => downsInRun = 0

(* C2: a run of consecutive failed polls emits at most one 'down' from the
   debounce, and exactly one once the run has reached maxPollingFailures
   and the debounce timeout is no longer pending. *)
C2_ExactlyOneDownPerRun ==
  /\ downsInRun <= 1
  /\ (failRun >= maxPollingFailures /\ trigger # "armed") => downsInRun = 1

C2_Witness ==
  /\ lastOp = "pollReject"
  /\ failRun >= maxPollingFailures
  /\ trigger = "fired"
  /\ downsInRun = 1

(* C3 as stated: a successful poll whose reply has knownBlockCount -
   blockCount <= 1, taken while unsynced, leaves the state synced and emits
   exactly one 'synced'. *)
C3_SyncedWheneverLagAtMostOne ==
  [][(lastOp' = "pollResolve" /\ ~synced
        /\ (replyKnown' - knownBlockCount') <= 1)
       => (synced' /\ Count(emitted', "synced") = 1)]_vars

(* C3 as amended: a successful poll whose reply has blockCount equal to
   knownBlockCount or to knownBlockCount - 1, taken while unsynced, leaves
   the state synced and emits exactly one 'synced'. *)
C3_SyncedAtTipOrOneBelow ==
  [][(lastOp' = "pollResolve" /\ ~synced
        /\ (knownBlockCount' = replyKnown' \/ knownBlockCount' + 1 = replyKnown'))
       => (synced' /\ Count(emitted', "synced") = 1)]_vars

C3_Witness ==
  /\ lastOp = "pollResolve"
  /\ knownBlockCount + 1 = replyKnown
  /\ synced
  /\ Count(emitted, "synced") = 1

(* C4: 'synced' is emitted only by a successful poll that turns the state
   from unsynced to synced, and once; a poll taken while synced emits none. *)
C4_SyncedEdgeTriggered ==
  [][Count(emitted', "synced") > 0
       => (/\ lastOp' = "pollResolve"
           /\ ~synced
           /\ synced'
           /\ Count(emitted', "synced") = 1)]_vars

C4_Witness ==
  /\ lastOp = "pollResolve"
  /\ synced
  /\ (knownBlockCount = replyKnown \/ knownBlockCount + 1 = replyKnown)
  /\ Count(emitted, "synced") = 0

(* C5: the persisted scan cursor never decreases. *)
C5_CursorMonotonic ==
  [][ScanFrom(scanHeight') >= ScanFrom(scanHeight)]_vars

(* the closed form the batch size is compared with *)
ClaimStep(b) == IF b > 100 THEN 1000 ELSE IF b > 10 THEN 10 ELSE 1

ScanIssued == lastOp = "scanTick" /\ emitted = <<"scan">>

LastScan == scanInFlight[Len(scanInFlight)]

(* C6 as stated: a scan tick with backlog b requests min(step(b), b) blocks. *)
C6_BatchIsMinOfStepAndBacklog ==
  ScanIssued =>
    LET b == knownBlockCount - LastScan.height
    IN  LastScan.cnt = (IF ClaimStep(b) < b THEN ClaimStep(b) ELSE b)

(* C6 as amended: a scan tick with backlog b requests step(b) blocks when
   step(b) <= b and b - 1 blocks otherwise. *)
C6_BatchIsStepOrBacklogLessOne ==
  ScanIssued =>
    LET b == knownBlockCount - LastScan.height
    IN  /\ b >= 1
        /\ LastScan.cnt = (IF ClaimStep(b) <= b THEN ClaimStep(b) ELSE b - 1)

C6_Witness ==
  /\ ScanIssued
  /\ knownBlockCount - LastScan.height = 500
  /\ LastScan.cnt = 499

(* C7: a stop() that directly follows a stop(), with a child present,
   schedules no further kill. *)
C7_SecondStopSchedulesNoKill ==
  [][(lastOp = "stop" /\ lastOp' = "stop" /\ child # 0)
       => killTimers' = killTimers]_vars

(* C8: from stop() until wallet loading is next reported finished, no
   polling, save or scan interval is active. *)
C8_NoTimerAfterStop ==
  stopped =>
    /\ ~pollingIntervalPtr /\ orphanPolls = 0
    /\ ~saveIntervalPtr /\ orphanSaves = 0
    /\ ~scanIntervalPtr

(* C9: when the connection timeout of a socket fires, a socket outside the
   authenticated set is disconnected and one inside it is left as it is. *)
C9_TimeoutDisconnectsUnauthenticated ==
  [][\A s \in Sockets :
       (s \in authTimer /\ s \notin authTimer')
         => IF s \in permittedClients
            THEN conn'[s] = conn[s] /\ s \in permittedClients'
            ELSE conn'[s] # "open"]_vars

C9_Witness ==
  /\ lastOp = "authTimeout"
  /\ emitted = <<"info">>
  /\ \E s \in permittedClients : s \notin authTimer /\ conn[s] = "open"
  /\ \E s \in Sockets : s \notin authTimer /\ conn[s] = "closed" /\ handlers[s] = 0

(* C10: a message sent to a socket outside the authenticated set is a
   'challenge' or an 'auth'. *)
C10_UnauthenticatedGetsNoBroadcast ==
  \A m \in delivered : ~m.auth => m.name \in {"challenge", "auth"}

C10_Witness ==
  /\ \E s \in Sockets : conn[s] = "open" /\ s \notin permittedClients
  /\ \E m \in delivered : m.name = "down" /\ m.auth

(* C11: a challenge gets an 'auth' reply that is true exactly when the hash
   presented equals the configured one; a true reply comes with
   'auth.success' and the socket in the authenticated set; a false reply
   comes with 'auth.failure', the socket disconnected and outside the set. *)
C11_ChallengeDecidesAuthentication ==
  [][/\ lastOp' = "challenge" => authSent' # {}
     /\ \A m \in authSent' :
          /\ lastOp' = "challenge"
          /\ m.ok = (m.pw = password)
          /\ \E d \in delivered' : d.to = m.to /\ d.name = "auth"
          /\ IF m.ok
             THEN /\ m.to \in permittedClients'
                  /\ wsEmitted' = <<"auth.success">>
                  /\ conn'[m.to] = "open"
             ELSE /\ m.to \notin permittedClients'
                  /\ wsEmitted'[1] = "auth.failure"
                  /\ conn'[m.to] = "closed"]_vars

C11_Witness ==
  /\ lastOp = "challenge"
  /\ \E m \in authSent : ~m.ok /\ handlers[m.to] > 0 /\ conn[m.to] = "closed"
  /\ permittedClients # {}

(* C12: every event emitted under a relayed name reaches every socket of the
   authenticated set under the name it was emitted with. *)
C12_RelayedUnderOwnName ==
  [][permittedClients' = permittedClients
       => \A i \in 1..Len(emitted'), s \in permittedClients :
            emitted'[i] \in Relayed
              => \E d \in delivered' : d.to = s /\ d.name = emitted'[i]]_vars

(* C13: every response carries the nonce its request was sent with. *)
C13_ResponseCarriesRequestNonce ==
  \A r \in responded : r.nonce = r.sent

(* C14: a command received from a socket of the authenticated set starts
   exactly one api call (and with it one response). *)
C14_OneCallPerCommand ==
  [][\A m \in received' :
       m.from \in permittedClients
         => BagCardinality(apiInFlight') = BagCardinality(apiInFlight) + 1]_vars

(* C15: a socket of the authenticated set is connected and has passed a
   challenge; a disconnected socket is not in the set. *)
C15_PermittedOnlyWhileConnected ==
  \A s \in Sockets :
    /\ s \in permittedClients => (conn[s] = "open" /\ handlers[s] > 0)
    /\ conn[s] = "closed" => s \notin permittedClients

C15_Witness ==
  /\ \E s \in Sockets : conn[s] = "closed" /\ handlers[s] > 0
  /\ \E s \in Sockets : s \in permittedClients

(* C16 as stated: at a scan tick the stored cursor is at most
   knownBlockCount + 1. *)
C16_CursorWithinKnownAtTick ==
  lastOp = "scanTick" => ScanFrom(scanHeight) <= knownBlockCount + 1

(* C16 as amended: a scan tick that issues a request starts it at the stored
   cursor, which is below knownBlockCount, and ends it at most at
   knownBlockCount; a tick that finds the cursor at or above knownBlockCount
   issues nothing. *)
C16_RequestWithinKnown ==
  /\ ScanIssued =>
       /\ LastScan.height = ScanFrom(scanHeight)
       /\ LastScan.height < knownBlockCount
       /\ (LastScan.height + LastScan.cnt) <= knownBlockCount
  /\ (lastOp = "scanTick" /\ ScanFrom(scanHeight) >= knownBlockCount) => emitted = <<>>

C16_Witness ==
  /\ lastOp = "scanTick"
  /\ synced
  /\ ScanFrom(scanHeight) > knownBlockCount + 1
  /\ emitted = <<>>

(* C17: a failed transaction fetch emits one 'error' and no 'transaction' and
   leaves the stored cursor as it was, and a tick that follows starts its
   request at that cursor. *)
C17_FailureKeepsCursor ==
  [][/\ lastOp' = "scanReject"
          => (emitted' = <<"error">> /\ scanHeight' = scanHeight)
     /\ (lastOp = "scanReject" /\ lastOp' = "scanTick" /\ emitted' = <<"scan">>)
          => scanInFlight'[Len(scanInFlight')].height = ScanFrom(scanHeight)]_vars

C17_Witness ==
  /\ lastOp = "scanReject"
  /\ emitted = <<"error">>
  /\ scanHeight = 11
  /\ scanInFlight = <<>>

(* C18: every block from the initial cursor up to the stored cursor,
   exclusive, lies in a resolved fetch whose transactions were all emitted. *)
C18_CursorWithinFetched ==
  ScanFrom(scanHeight) <= fetchedTo

C18_Witness ==
  /\ lastOp = "scanResolve"
  /\ scanHeight = 150
  /\ fetchedTo = 150

(* C19: 'transaction' events come only from a resolved fetch, whose request
   was issued by a tick that emitted 'scan', and none of them comes after the
   cursor write of its batch. *)
C19_ScanThenTransactionsThenCursor ==
  [][/\ Count(emitted', "transaction") > 0 => lastOp' = "scanResolve"
     /\ lastOp' = "scanResolve"
          => (putShort' = 0 /\ Len(scanInFlight') = Len(scanInFlight) - 1)
     /\ Len(scanInFlight') > Len(scanInFlight) => emitted' = <<"scan">>]_vars

C19_Witness ==
  /\ lastOp = "scanResolve"
  /\ Count(emitted, "transaction") = MaxTx
  /\ putShort = 0
  /\ scanHeight > 1

(* C20: 'alive' is emitted only by a successful poll taken while not marked
   alive, and once; every successful poll leaves the process marked alive;
   the mark is cleared only by a step that emits 'down'. *)
C20_AliveOncePerDown ==
  [][/\ Count(emitted', "alive") > 0
          => (lastOp' = "pollResolve" /\ ~isRunning /\ Count(emitted', "alive") = 1)
     /\ lastOp' = "pollResolve"
          => (isRunning' /\ (~isRunning => Count(emitted', "alive") = 1))
     /\ (isRunning /\ ~isRunning') => Count(emitted', "down") > 0]_vars

C20_Witness ==
  /\ lastOp = "pollResolve"
  /\ isRunning
  /\ Count(emitted, "alive") = 0
  /\ Count(emitted, "status") = 1

(* C21 as stated: the save timer issues a save call only in a state where
   the synced flag is set. *)
C21_SaveOnlyWhileSynced == lastOp = "saveTick" => synced

(* C22 as stated: a scan tick emits 'scan' and issues a fetch only while the
   process is marked alive and synced. *)
C22_ScanOnlyAliveSynced == ScanIssued => (isRunning /\ synced)

(* C23: a command received from a connection outside the authenticated set
   dispatches no api call, and a connection gains a command listener only in
   the step that answers its challenge with auth.success. *)
C23_NoCallBeforeHandshake ==
  [][/\ \A m \in received' :
          m.from \notin permittedClients => apiInFlight' = apiInFlight
     /\ \A s \in Sockets :
          handlers'[s] > handlers[s]
            => /\ wsEmitted' = <<"auth.success">>
               /\ \E a \in authSent' : a.to = s /\ a.ok
               /\ s \in permittedClients']_vars

C23_Witness ==
  /\ lastOp = "request"
  /\ \E m \in received : m.from \notin permittedClients /\ handlers[m.from] = 0
  /\ apiInFlight = EmptyBag

(* C24 as stated: a step that rejects a challenge sends messages to the
   rejected connection only. *)
C24_FailedAuthNotPropagated ==
  \A a \in authSent : ~a.ok => \A d \in delivered : d.to = a.to

(* C25 as stated: a broadcast in which the send to one authenticated
   connection throws emits one 'error', still reaches every other
   authenticated connection, and returns. *)
C25_FailedSendIsolated ==
  \A x \in sendFailed :
    /\ Count(emitted, "error") = 1
    /\ \A s \in permittedClients \ {x.to} :
         Msg(s, "data", permittedClients) \in delivered
    /\ ~x.threw

(* C26 as stated: after a successful poll this.knownBlockCount is the
   knownBlockCount field of the reply. *)
C26_KnownFromReply == lastOp = "pollResolve" => knownBlockCount = replyKnown

(* C27: a successful poll leaves no debounce timeout pending; 'down' is
   emitted by the debounce only from a pending timeout with a failed poll
   since the last success; a timeout becomes pending only by a failed poll. *)
C27_SuccessCancelsDebounce ==
  [][/\ lastOp' = "pollResolve" => trigger' = "null"
     /\ lastOp' = "triggerFire" => (trigger = "armed" /\ failRun > 0)
     /\ (trigger' = "armed" /\ trigger # "armed") => lastOp' = "pollReject"]_vars

C27_Witness ==
  /\ lastOp = "pollResolve"
  /\ "trigger" \in found
  /\ trigger = "null"

(* C28: no scan interval is ever left without a pointer; a 'synced' event that
   finds the pointer set arms nothing; the pointer is cleared only by stop()
   and set only by a 'synced' event. *)
C28_OneScanTimer ==
  [][/\ orphanScans' = 0
     /\ "scanIntervalPtr" \in found' => (scanIntervalPtr' /\ orphanScans' = orphanScans)
     /\ (scanIntervalPtr /\ ~scanIntervalPtr') => lastOp' = "stop"
     /\ (~scanIntervalPtr /\ scanIntervalPtr') => Count(emitted', "synced") = 1]_vars

C28_Witness ==
  /\ "scanIntervalPtr" \in found
  /\ Count(emitted, "synced") = 1
  /\ scanIntervalPtr
  /\ orphanScans = 0

(* C29: for every cursor below the known block count the batch is at least 1
   and ends within the known block count, and a scan tick requests that batch. *)
C29_BatchWithinKnown ==
  /\ \A h \in 1..(knownBlockCount - 1) :
       /\ BatchSize(h, knownBlockCount) >= 1
       /\ (h + BatchSize(h, knownBlockCount)) <= knownBlockCount
  /\ ScanIssued =>
       /\ LastScan.cnt = BatchSize(LastScan.height, knownBlockCount)
       /\ LastScan.cnt >= 1

C29_Witness ==
  /\ ScanIssued
  /\ LastScan.cnt = 1000
  /\ (LastScan.height + LastScan.cnt) = knownBlockCount

(* C30 as stated: once the child that stop() was called for has exited and
   its 'close' has been emitted, the kill timeout of that stop(), the only one
   pending, kills nothing: a child spawned since is left alone. *)
C30_KillHitsStoppedChild ==
  [][(/\ lastOp' = "kill"
      /\ killTimers = 1
      /\ stopChild # 0
      /\ stopChild \notin (liveChildren \cup closePending))
       => liveChildren' = liveChildren]_vars

(* C31 as stated: no polling interval and no save interval runs besides the
   one its pointer holds. *)
C31_OneTimerOfEachKind == orphanPolls = 0 /\ orphanSaves = 0

(* C32 as stated: a status poll that settles right after stop() returned
   leaves the synced flag false, emits no 'synced', and brings neither a scan
   interval nor a pending debounce timeout into existence. *)
C32_QuietAfterStop ==
  [][(lastOp = "stop" /\ lastOp' \in {"pollResolve", "pollReject"})
       => /\ ~synced'
          /\ Count(emitted', "synced") = 0
          /\ ~scanIntervalPtr'
          /\ trigger' = "armed" => trigger = "armed"]_vars

(* the restarted daemon reported its wallet loaded, after a 'down' of the
   debounce, then stop(), then a spawn, with no successful poll since *)
RestartedAfterDown ==
  /\ downAtStop
  /\ stopChild # 0
  /\ child > stopChild
  /\ child \in liveChildren
  /\ pollingIntervalPtr
  /\ ~stopped

(* C33 as stated: after 'down', stop() and a restart, 'down' is emitted again
   unless a poll succeeds, stop() is called again or the process exits. *)
C33_DownAgainAfterRestart ==
  RestartedAfterDown
    ~> (\/ Count(emitted, "down") > 0
        \/ lastOp = "pollResolve"
        \/ lastOp = "stop"
        \/ halted)

(* C34 as stated: the cursor reaches the known block count, and once it has
   no scan tick issues a request any more. *)
C34_CursorReachesKnownAndRests ==
  /\ <>(scanHeight = knownBlockCount)
  /\ [](scanHeight = knownBlockCount => [](~ScanIssued))

(* C35 as stated: without an rpcPassword no connection is in the
   authenticated set. *)
C35_NoPasswordNoAuthentication == rpcPassword = "false" => permittedClients = {}

=============================================================================
